---- MODULE Spec2Model ----
(***************************************************************************)
(* A model of the personal finance tracker: the keyword categorizer        *)
(* (src/src/categorizer.py), the CSV importer and its date and amount      *)
(* parsers (src/src/csv_import.py), the SQLite store and its aggregate     *)
(* queries (src/src/database.py) and the menu handlers that drive them     *)
(* (src/main.py).                                                          *)
(*                                                                         *)
(* Strings are TLA+ strings; Python's str methods are operators over them. *)
(* Amounts and budget limits are integer numbers of hundredths: the model  *)
(* does not cover floating-point rounding or infinities. The handler       *)
(* create_sample_data, an import of a fixed file of twelve rows, is left   *)
(* out; import_csv covers the same code.                                   *)
(***************************************************************************)
EXTENDS Integers, Sequences, FiniteSets, TLC

VARIABLES
    category_keywords,  \* TransactionCategorizer.category_keywords: the ordered rule table
    transactions,       \* rows of the transactions table, in id order
    categories,         \* rows of the categories table
    next_id,            \* the AUTOINCREMENT counter of the transactions table
    last                \* the last call made and what it returned, raised and printed

vars == <<category_keywords, transactions, categories, next_id, last>>

(***************************************************************************)
(* Python strings                                                          *)
(***************************************************************************)

UpperChars == "ABCDEFGHIJKLMNOPQRSTUVWXYZ"

LowerChars == "abcdefghijklmnopqrstuvwxyz"

\* The i-th character of s, as a string of length one.
CharAt(s, i) == SubSeq(s, i, i)

\* The lowercase letter of each uppercase ASCII letter.
LowerOfUpper ==
    [c \in {CharAt(UpperChars, i) : i \in 1..Len(UpperChars)} |->
        CharAt(LowerChars, CHOOSE i \in 1..Len(UpperChars) : CharAt(UpperChars, i) = c)]

\* str.lower() of one ASCII character.
LowerChar(c) == IF c \in DOMAIN LowerOfUpper THEN LowerOfUpper[c] ELSE c

RECURSIVE LowerFrom(_, _)
LowerFrom(s, i) ==
    IF i > Len(s) THEN "" ELSE LowerChar(CharAt(s, i)) \o LowerFrom(s, i + 1)

\* A str.lower() that leaves the string as it is (the lowercasing forgotten).
LowerDropped(s) == s

\* str.lower() on ASCII text.
Lower(s) == LowerFrom(s, 1)

\* Python's `k in s` for strings: k occurs as a contiguous substring of s.
IsSubstring(k, s) ==
    \E i \in 1..(Len(s) - Len(k) + 1) : SubSeq(s, i, i + Len(k) - 1) = k

\* str.startswith
StartsWith(s, p) == Len(p) <= Len(s) /\ SubSeq(s, 1, Len(p)) = p

(***************************************************************************)
(* Python floats                                                           *)
(*                                                                         *)
(* A float is modelled by the integer number of its hundredths, and nan by *)
(* NaN.                                                                    *)
(***************************************************************************)

\* float('nan'): a value outside the hundredths any amount of the model has.
NaN == -999999999

\* The value of units and hundredths, in hundredths.
Money(units, hundredths) == units * 100 + hundredths

\* `x > 0` on floats: false for nan.
Positive(x) == x # NaN /\ x > 0

\* An abs(x) that keeps the sign.
AbsDropped(x) == x

\* abs(x) on floats.
Abs(x) == IF x = NaN THEN NaN ELSE IF x < 0 THEN -x ELSE x

\* -x on floats.
Negated(x) == IF x = NaN THEN NaN ELSE -x

(***************************************************************************)
(* TransactionCategorizer                                                  *)
(***************************************************************************)

\* The rule table built by __init__, in dict insertion order.
DefaultKeywords == <<
    [name |-> "Food & Dining", keywords |-> <<
        "restaurant", "cafe", "food", "grocery", "supermarket",
        "starbucks", "mcdonald", "pizza", "burger", "delivery",
        "uber eats", "doordash", "grubhub", "dining">>],
    [name |-> "Transportation", keywords |-> <<
        "gas", "fuel", "uber", "lyft", "taxi", "parking",
        "car wash", "toll", "metro", "bus", "train", "subway",
        "vehicle", "maintenance", "repair">>],
    [name |-> "Shopping", keywords |-> <<
        "amazon", "walmart", "target", "mall", "store",
        "clothing", "shoes", "electronics", "online shopping",
        "ebay", "etsy", "fashion", "retail">>],
    [name |-> "Bills & Utilities", keywords |-> <<
        "electric", "water", "gas bill", "internet", "phone",
        "cable", "insurance", "rent", "mortgage", "utility",
        "subscription", "netflix", "spotify", "hulu">>],
    [name |-> "Entertainment", keywords |-> <<
        "movie", "cinema", "theater", "concert", "game",
        "streaming", "hobby", "sports", "gym", "fitness",
        "recreation", "amusement", "ticket">>],
    [name |-> "Healthcare", keywords |-> <<
        "pharmacy", "doctor", "hospital", "clinic", "medical",
        "dentist", "prescription", "health", "medicine",
        "therapy", "wellness">>],
    [name |-> "Salary", keywords |-> <<
        "salary", "payroll", "wages", "paycheck", "employer",
        "direct deposit", "income">>],
    [name |-> "Freelance", keywords |-> <<
        "freelance", "consulting", "contract", "gig",
        "side job", "project payment">>] >>

\* `any(word in text for word in words)`
AnyWordIn(words, text) == \E j \in 1..Len(words) : IsSubstring(words[j], text)

\* The inner loop of categorize: some keyword of the list occurs in the text.
RECURSIVE KeywordLoop(_, _, _)
KeywordLoop(keywords, text, j) ==
    IF j > Len(keywords) THEN FALSE
    ELSE IF IsSubstring(keywords[j], text) THEN TRUE
    ELSE KeywordLoop(keywords, text, j + 1)

\* The outer loop of categorize, from table position i on.
RECURSIVE CategoryLoop(_, _, _)
CategoryLoop(table, text, i) ==
    IF i > Len(table) THEN "Other Expenses"
    ELSE IF KeywordLoop(table[i].keywords, text, 1) THEN table[i].name
    ELSE CategoryLoop(table, text, i + 1)

\* A categorize that matches the description as typed, without lowercasing it.
categorizeCaseSensitive(table, description) ==
    CategoryLoop(table, LowerDropped(description), 1)

\* TransactionCategorizer.categorize
categorize(table, description) == CategoryLoop(table, Lower(description), 1)

\* A get_suggested_category that overrides every result of a positive amount.
get_suggested_categoryAlways(table, description, amount) ==
    LET base_category == categorize(table, description) IN
    IF Positive(amount)
    THEN IF AnyWordIn(<<"salary", "payroll", "employer">>, Lower(description))
         THEN "Salary"
         ELSE IF AnyWordIn(<<"freelance", "consulting", "contract">>, Lower(description))
         THEN "Freelance"
         ELSE "Other Income"
    ELSE base_category

\* TransactionCategorizer.get_suggested_category
get_suggested_category(table, description, amount) ==
    LET base_category == categorize(table, description) IN
    IF Positive(amount) /\ StartsWith(base_category, "Other")
    THEN IF AnyWordIn(<<"salary", "payroll", "employer">>, Lower(description))
         THEN "Salary"
         ELSE IF AnyWordIn(<<"freelance", "consulting", "contract">>, Lower(description))
         THEN "Freelance"
         ELSE "Other Income"
    ELSE base_category

\* The position of category `name` in the table, 0 when it is absent.
IndexOf(table, name) ==
    IF \E i \in 1..Len(table) : table[i].name = name
    THEN CHOOSE i \in 1..Len(table) : table[i].name = name
    ELSE 0

\* Whether the list holds the value (`x in list`).
InList(list, x) == \E j \in 1..Len(list) : list[j] = x

\* An add_keyword that stores the keyword as it is given.
add_keywordVerbatim(table, category, keyword) ==
    LET i == IndexOf(table, category) IN
    IF i # 0
    THEN IF ~InList(table[i].keywords, keyword)
         THEN [table EXCEPT ![i].keywords = Append(@, keyword)]
         ELSE table
    ELSE Append(table, [name |-> category, keywords |-> <<keyword>>])

\* An add_keyword that appends the keyword whether or not the category
\* has it.
add_keywordAlways(table, category, keyword) ==
    LET i == IndexOf(table, category) IN
    IF i # 0
    THEN [table EXCEPT ![i].keywords = Append(@, Lower(keyword))]
    ELSE Append(table, [name |-> category, keywords |-> <<Lower(keyword)>>])

\* TransactionCategorizer.add_keyword: the table after the call.
add_keyword(table, category, keyword) ==
    LET i == IndexOf(table, category) IN
    IF i # 0
    THEN IF ~InList(table[i].keywords, Lower(keyword))
         THEN [table EXCEPT ![i].keywords = Append(@, Lower(keyword))]
         ELSE table
    ELSE Append(table, [name |-> category, keywords |-> <<Lower(keyword)>>])

(***************************************************************************)
(* CSVImporter._parse_date                                                 *)
(*                                                                         *)
(* datetime.strptime compiles a format into a regular expression, matches  *)
(* it at the start of the string and raises ValueError unless the match    *)
(* covers the whole string; for the eight formats here a directive's       *)
(* alternatives never leave a longer full match untried, so that is a full *)
(* match of the format.                                                    *)
(***************************************************************************)

Digits == "0123456789"

IsDigit(c) == \E i \in 1..Len(Digits) : CharAt(Digits, i) = c

DigitValue(c) == (CHOOSE i \in 1..Len(Digits) : CharAt(Digits, i) = c) - 1

\* Whether every character of s is a decimal digit.
AllDigits(s) == \A i \in 1..Len(s) : IsDigit(CharAt(s, i))

\* The number a string of decimal digits writes.
RECURSIVE Number(_)
Number(s) ==
    IF s = "" THEN 0
    ELSE 10 * Number(SubSeq(s, 1, Len(s) - 1)) + DigitValue(CharAt(s, Len(s)))

\* str(n) for a natural number.
RECURSIVE Str(_)
Str(n) == IF n < 10 THEN CharAt(Digits, n + 1) ELSE Str(n \div 10) \o CharAt(Digits, (n % 10) + 1)

\* f"{n:02d}", and strftime's %m and %d.
Pad2(n) == IF n < 10 THEN "0" \o Str(n) ELSE Str(n)

\* f"{n:04d}": a year written the canonical way.
Pad4(n) == IF n < 10 THEN "000" \o Str(n)
           ELSE IF n < 100 THEN "00" \o Str(n)
           ELSE IF n < 1000 THEN "0" \o Str(n)
           ELSE Str(n)

\* The white space str.strip() removes and \s matches (space and tab here).
IsSpace(c) == c = " " \/ c = "\t"

RECURSIVE LStrip(_)
LStrip(s) == IF s # "" /\ IsSpace(CharAt(s, 1)) THEN LStrip(Tail(s)) ELSE s

RECURSIVE RStrip(_)
RStrip(s) ==
    IF s # "" /\ IsSpace(CharAt(s, Len(s))) THEN RStrip(SubSeq(s, 1, Len(s) - 1)) ELSE s

\* str.strip()
Strip(s) == RStrip(LStrip(s))

\* The month names of %B in the C locale; %b is the first three letters.
MonthNames == <<"january", "february", "march", "april", "may", "june", "july",
                "august", "september", "october", "november", "december">>

MonthAbbr(m) == SubSeq(MonthNames[m], 1, 3)

IsLeap(y) == (y % 4 = 0 /\ y % 100 # 0) \/ y % 400 = 0

DaysInMonth(y, m) ==
    IF m = 2 THEN (IF IsLeap(y) THEN 29 ELSE 28)
    ELSE IF m \in {4, 6, 9, 11} THEN 30 ELSE 31

\* What one directive can match at position i of s: pairs <<length, value>>.
\* %Y is \d\d\d\d; %m is 1[0-2]|0[1-9]|[1-9]; %d is
\* 3[01]|[12]\d|0[1-9]|[1-9]| [1-9]; %b and %B are the names, in any case.
DirectiveAt(directive, s, i) ==
    LET two == IF i + 1 <= Len(s) THEN SubSeq(s, i, i + 1) ELSE ""
        one == IF i <= Len(s) THEN CharAt(s, i) ELSE ""
        twoDigits == two # "" /\ AllDigits(two)
        oneDigit == one # "" /\ IsDigit(one) /\ one # "0"
    IN
    CASE directive = "%Y" ->
            IF i + 3 <= Len(s) /\ AllDigits(SubSeq(s, i, i + 3))
            THEN {<<4, Number(SubSeq(s, i, i + 3))>>} ELSE {}
      [] directive = "%m" ->
            (IF twoDigits /\ Number(two) \in 1..12 THEN {<<2, Number(two)>>} ELSE {})
            \cup (IF oneDigit THEN {<<1, Number(one)>>} ELSE {})
      [] directive = "%d" ->
            (IF twoDigits /\ Number(two) \in 1..31 THEN {<<2, Number(two)>>} ELSE {})
            \cup (IF oneDigit THEN {<<1, Number(one)>>} ELSE {})
            \cup (IF two # "" /\ CharAt(two, 1) = " " /\ IsDigit(CharAt(two, 2))
                     /\ CharAt(two, 2) # "0"
                  THEN {<<2, Number(CharAt(two, 2))>>} ELSE {})
      [] directive = "%b" ->
            {<<3, m>> : m \in {k \in 1..12 :
                i + 2 <= Len(s) /\ Lower(SubSeq(s, i, i + 2)) = MonthAbbr(k)}}
      [] directive = "%B" ->
            {<<Len(MonthNames[m]), m>> : m \in {k \in 1..12 :
                /\ i + Len(MonthNames[k]) - 1 <= Len(s)
                /\ Lower(SubSeq(s, i, i + Len(MonthNames[k]) - 1)) = MonthNames[k]}}

\* The field of the parse a directive fills.
FieldOf(directive) ==
    CASE directive = "%Y" -> "year"
      [] directive = "%m" -> "month"
      [] directive \in {"%b", "%B"} -> "month"
      [] directive = "%d" -> "day"

\* All the ways format items j.. match s from position i to its end, as the
\* parses <<year, month, day>> they give. A space of the format is \s+.
RECURSIVE MatchFrom(_, _, _, _, _)
MatchFrom(s, i, fmt, j, got) ==
    IF j > Len(fmt) THEN (IF i = Len(s) + 1 THEN {got} ELSE {})
    ELSE IF Len(fmt[j]) = 2
    THEN UNION { MatchFrom(s, i + lv[1], fmt, j + 1,
                           [got EXCEPT ![FieldOf(fmt[j])] = lv[2]])
                 : lv \in DirectiveAt(fmt[j], s, i) }
    ELSE IF fmt[j] = " "
    THEN UNION { MatchFrom(s, i + n, fmt, j + 1, got)
                 : n \in {k \in 1..(Len(s) - i + 1) :
                            \A q \in i..(i + k - 1) : IsSpace(CharAt(s, q))} }
    ELSE IF i <= Len(s) /\ CharAt(s, i) = fmt[j]
    THEN MatchFrom(s, i + 1, fmt, j + 1, got)
    ELSE {}

\* What a call returns or raises.
Returns(value) == [raised |-> "", ret |-> value]

Raises(exception) == [raised |-> exception]

\* datetime.strptime(s, fmt): the date parsed, or ValueError when the
\* string does not match or names no day of the calendar.
strptime(s, fmt) ==
    LET parses == MatchFrom(s, 1, fmt, 1, [year |-> 0, month |-> 0, day |-> 0]) IN
    IF parses = {} THEN Raises("ValueError")
    ELSE LET dt == CHOOSE p \in parses : TRUE IN
         IF dt.year >= 1 /\ dt.day <= DaysInMonth(dt.year, dt.month)
         THEN Returns(dt) ELSE Raises("ValueError")

\* dt.strftime('%Y-%m-%d'); the C library's %Y does not pad the year.
strftime(dt) == Str(dt.year) \o "-" \o Pad2(dt.month) \o "-" \o Pad2(dt.day)

\* The formats as _parse_date lists them, each a sequence of directives and
\* literal characters.
date_formats == <<
    <<"%Y", "-", "%m", "-", "%d">>,
    <<"%m", "/", "%d", "/", "%Y">>,
    <<"%d", "/", "%m", "/", "%Y">>,
    <<"%Y", "/", "%m", "/", "%d">>,
    <<"%m", "-", "%d", "-", "%Y">>,
    <<"%d", "-", "%m", "-", "%Y">>,
    <<"%b", " ", "%d", ",", " ", "%Y">>,
    <<"%B", " ", "%d", ",", " ", "%Y">> >>

\* The format list with the day-first formats tried before the month-first ones.
date_formatsDayFirst == <<
    <<"%Y", "-", "%m", "-", "%d">>,
    <<"%d", "/", "%m", "/", "%Y">>,
    <<"%m", "/", "%d", "/", "%Y">>,
    <<"%Y", "/", "%m", "/", "%d">>,
    <<"%d", "-", "%m", "-", "%Y">>,
    <<"%m", "-", "%d", "-", "%Y">>,
    <<"%b", " ", "%d", ",", " ", "%Y">>,
    <<"%B", " ", "%d", ",", " ", "%Y">> >>

\* A loop over the formats that goes from the last format to the first.
RECURSIVE FormatLoopBackwards(_, _, _)
FormatLoopBackwards(date_str, formats, k) ==
    IF k > Len(formats) THEN Raises("ValueError")
    ELSE LET dt == strptime(date_str, formats[Len(formats) - k + 1]) IN
         IF dt.raised = "" THEN Returns(strftime(dt.ret))
         ELSE FormatLoopBackwards(date_str, formats, k + 1)

\* The loop of _parse_date over a list of formats, from format k on.
RECURSIVE FormatLoop(_, _, _)
FormatLoop(date_str, formats, k) ==
    IF k > Len(formats) THEN Raises("ValueError")
    ELSE LET dt == strptime(date_str, formats[k]) IN
         IF dt.raised = "" THEN Returns(strftime(dt.ret))
         ELSE FormatLoop(date_str, formats, k + 1)

\* A _parse_date that tries the day-first formats first.
_parse_dateDayFirst(date_str) ==
    IF date_str = "<None>" THEN Raises("AttributeError")
    ELSE FormatLoop(Strip(date_str), date_formatsDayFirst, 1)

\* CSVImporter._parse_date; None, the value of a missing cell, has no strip().
_parse_date(date_str) ==
    IF date_str = "<None>" THEN Raises("AttributeError")
    ELSE FormatLoop(Strip(date_str), date_formats, 1)

(***************************************************************************)
(* CSVImporter._parse_amount                                               *)
(*                                                                         *)
(* float() is modelled on plain decimal notation with at most two fraction *)
(* digits and on "nan"; exponents, infinities, underscores and longer      *)
(* fractions are not drawn as inputs.                                      *)
(***************************************************************************)

\* str.replace(s, c, by) for a single character c.
RECURSIVE Replace(_, _, _)
Replace(s, c, by) ==
    IF s = "" THEN ""
    ELSE (IF CharAt(s, 1) = c THEN by ELSE CharAt(s, 1)) \o Replace(Tail(s), c, by)

\* The position of the first c in s, 0 when there is none.
Find(s, c) ==
    IF \E i \in 1..Len(s) : CharAt(s, i) = c
    THEN CHOOSE i \in 1..Len(s) : CharAt(s, i) = c /\ \A j \in 1..(i - 1) : CharAt(s, j) # c
    ELSE 0

\* float(s) of an unsigned decimal: digits, with an optional point and at
\* most two fraction digits, at least one digit in all.
UnsignedFloat(s) ==
    LET dot == Find(s, ".")
        whole == IF dot = 0 THEN s ELSE SubSeq(s, 1, dot - 1)
        frac == IF dot = 0 THEN "" ELSE SubSeq(s, dot + 1, Len(s))
    IN  IF AllDigits(whole) /\ AllDigits(frac) /\ Len(whole) + Len(frac) > 0 /\ Len(frac) <= 2
        THEN Returns(Money(Number(whole),
                           IF Len(frac) = 1 THEN 10 * Number(frac) ELSE Number(frac)))
        ELSE Raises("ValueError")

\* float(s)
Float(s) ==
    LET t == Strip(s)
        signed == t # "" /\ CharAt(t, 1) \in {"+", "-"}
        body == IF signed THEN Tail(t) ELSE t
        magnitude == UnsignedFloat(body)
    IN  IF Lower(body) = "nan" THEN Returns(NaN)
        ELSE IF magnitude.raised # "" THEN magnitude
        ELSE IF signed /\ CharAt(t, 1) = "-" THEN Returns(-magnitude.ret)
        ELSE magnitude

\* The value csv.DictReader gives a column the row has no cell for.
None == "<None>"

\* CSVImporter._parse_amount
_parse_amount(amount_str) ==
    IF amount_str = None THEN Raises("AttributeError")
    ELSE LET stripped == Strip(amount_str)
             bare == Replace(Replace(Replace(Replace(stripped, "$", ""), "€", ""), "£", ""), ",", "")
         IN  IF IsSubstring("(", bare) /\ IsSubstring(")", bare)
             THEN Float(Replace(Replace(bare, "(", "-"), ")", ""))
             ELSE Float(bare)

(***************************************************************************)
(* FinanceDatabase                                                         *)
(***************************************************************************)

\* The categories _initialize_default_categories inserts, in id order.
DefaultCategories == <<
    [name |-> "Food & Dining",     budget_limit |-> Money(500, 0), type |-> "expense"],
    [name |-> "Transportation",    budget_limit |-> Money(200, 0), type |-> "expense"],
    [name |-> "Shopping",          budget_limit |-> Money(300, 0), type |-> "expense"],
    [name |-> "Bills & Utilities", budget_limit |-> Money(400, 0), type |-> "expense"],
    [name |-> "Entertainment",     budget_limit |-> Money(150, 0), type |-> "expense"],
    [name |-> "Healthcare",        budget_limit |-> Money(200, 0), type |-> "expense"],
    [name |-> "Other Expenses",    budget_limit |-> Money(100, 0), type |-> "expense"],
    [name |-> "Salary",            budget_limit |-> 0,             type |-> "income"],
    [name |-> "Freelance",         budget_limit |-> 0,             type |-> "income"],
    [name |-> "Other Income",      budget_limit |-> 0,             type |-> "income"] >>

\* The printable ASCII characters in code order, without the double quote
\* (34), the backslash (92) and the grave accent (96): SQLite compares TEXT
\* byte by byte.
AsciiFrom32 == " !"

AsciiFrom35 == "#$%&'()*+,-./0123456789:;<=>?@ABCDEFGHIJKLMNOPQRSTUVWXYZ["

AsciiFrom93 == "]^_"

AsciiFrom97 == "abcdefghijklmnopqrstuvwxyz{|}~"

\* The code of each of these characters.
CodeOfChar ==
    [c \in {CharAt(AsciiFrom32, i) : i \in 1..Len(AsciiFrom32)} |->
        31 + (CHOOSE i \in 1..Len(AsciiFrom32) : CharAt(AsciiFrom32, i) = c)]
    @@ [c \in {CharAt(AsciiFrom35, i) : i \in 1..Len(AsciiFrom35)} |->
        34 + (CHOOSE i \in 1..Len(AsciiFrom35) : CharAt(AsciiFrom35, i) = c)]
    @@ [c \in {CharAt(AsciiFrom93, i) : i \in 1..Len(AsciiFrom93)} |->
        92 + (CHOOSE i \in 1..Len(AsciiFrom93) : CharAt(AsciiFrom93, i) = c)]
    @@ [c \in {CharAt(AsciiFrom97, i) : i \in 1..Len(AsciiFrom97)} |->
        96 + (CHOOSE i \in 1..Len(AsciiFrom97) : CharAt(AsciiFrom97, i) = c)]

CharCode(c) == CodeOfChar[c]

\* a < b for TEXT values: at the first position where they differ a has the
\* lower byte, or a is a proper prefix of b.
TextLess(a, b) ==
    \/ \E i \in 1..Len(a) :
            /\ i <= Len(b)
            /\ SubSeq(a, 1, i - 1) = SubSeq(b, 1, i - 1)
            /\ CharCode(CharAt(a, i)) < CharCode(CharAt(b, i))
    \/ Len(a) < Len(b) /\ SubSeq(b, 1, Len(a)) = a

TextLessEq(a, b) == a = b \/ TextLess(a, b)

\* The sum of a field over a set of rows (SUM(...) of a group).
RECURSIVE SumAmount(_)
SumAmount(rows) ==
    IF rows = {} THEN 0
    ELSE LET r == CHOOSE r \in rows : TRUE IN r.amount + SumAmount(rows \ {r})

\* The rows of a table, as a set.
Rows(table) == {table[i] : i \in 1..Len(table)}

\* FinanceDatabase.add_transaction: the INSERT. amount REAL NOT NULL refuses
\* the NULL that nan is bound as.
InsertRaises(amount) == IF amount = NaN THEN "IntegrityError" ELSE ""

Inserted(table, id, date, description, amount, category, trans_type) ==
    Append(table, [id |-> id, date |-> date, description |-> description,
                   amount |-> amount, category |-> category, type |-> trans_type])

\* FinanceDatabase.delete_transaction: the table after the DELETE.
delete_transaction(table, transaction_id) ==
    SelectSeq(table, LAMBDA r : r.id # transaction_id)

\* FinanceDatabase.update_budget_limit: the categories after the UPDATE.
update_budget_limit(cats, category, new_limit) ==
    [i \in 1..Len(cats) |->
        IF cats[i].name = category THEN [cats[i] EXCEPT !.budget_limit = new_limit]
        ELSE cats[i]]

\* start_date and end_date as get_monthly_summary and check_budget_alerts
\* build them.
MonthStart(year, month) == Str(year) \o "-" \o Pad2(month) \o "-01"

MonthEnd(year, month) ==
    IF month = 12 THEN Str(year + 1) \o "-01-01"
    ELSE Str(year) \o "-" \o Pad2(month + 1) \o "-01"

\* A range that takes in its end date, as BETWEEN does.
InRangeBetween(row, start_date, end_date) ==
    TextLessEq(start_date, row.date) /\ TextLessEq(row.date, end_date)

\* WHERE date >= ? AND date < ?
InRange(row, start_date, end_date) ==
    TextLessEq(start_date, row.date) /\ TextLess(row.date, end_date)

\* A monthly summary whose balance adds the expenses.
get_monthly_summaryAdding(table, year, month) ==
    LET selected == {r \in Rows(table) : InRange(r, MonthStart(year, month), MonthEnd(year, month))}
        results == [ty \in {r.type : r \in selected} |->
                        SumAmount({r \in selected : r.type = ty})]
        income == IF "income" \in DOMAIN results THEN results["income"] ELSE 0
        expenses == IF "expense" \in DOMAIN results THEN results["expense"] ELSE 0
    IN  [income |-> income, expenses |-> expenses, balance |-> income + expenses,
         month |-> Str(year) \o "-" \o Pad2(month)]

\* FinanceDatabase.get_monthly_summary
get_monthly_summary(table, year, month) ==
    LET selected == {r \in Rows(table) : InRange(r, MonthStart(year, month), MonthEnd(year, month))}
        results == [ty \in {r.type : r \in selected} |->
                        SumAmount({r \in selected : r.type = ty})]
        income == IF "income" \in DOMAIN results THEN results["income"] ELSE 0
        expenses == IF "expense" \in DOMAIN results THEN results["expense"] ELSE 0
    IN  [income |-> income, expenses |-> expenses, balance |-> income - expenses,
         month |-> Str(year) \o "-" \o Pad2(month)]

\* HAVING spent >= c.budget_limit * 0.8, in hundredths. The product is
\* exact in floating point for the limits of this model.
Having(spent, budget_limit) == 10 * spent >= 8 * budget_limit

\* The rows of the query of check_budget_alerts before ORDER BY: one for
\* each (t.category, c.budget_limit) group of the expense transactions of
\* the month that join a category with a limit above 0. The percentage
\* SUM(t.amount) / c.budget_limit * 100 is kept as a fraction num / den.
BudgetAlertRows(table, cats, year, month) ==
    LET joined == {<<t, c>> \in Rows(table) \X Rows(cats) :
                        /\ t.category = c.name
                        /\ t.type = "expense"
                        /\ InRange(t, MonthStart(year, month), MonthEnd(year, month))
                        /\ c.budget_limit > 0}
        groups == {<<tc[1].category, tc[2].budget_limit>> : tc \in joined}
        spent(g) == SumAmount({tc[1] : tc \in {x \in joined :
                        x[1].category = g[1] /\ x[2].budget_limit = g[2]}})
    IN  {[category |-> g[1], spent |-> spent(g), limit |-> g[2],
          percentage |-> [num |-> spent(g) * 100, den |-> g[2]]]
            : g \in {h \in groups : Having(spent(h), h[2])}}

\* A percentage above 100.
Above100(percentage) == percentage.num > 100 * percentage.den

\* alert['percentage'] >= 100
AtLeast100(percentage) == percentage.num >= 100 * percentage.den

\* The status line the budget alert views print for an alert.
AlertStatus(alert) == IF AtLeast100(alert.percentage) THEN "[!] EXCEEDED" ELSE "[!] WARNING"

\* FinanceDatabase.get_categories(cat_type): the names of the categories of
\* a type, ORDER BY name.
RECURSIVE SortedText(_)
SortedText(names) ==
    IF names = {} THEN <<>>
    ELSE LET least == CHOOSE n \in names : \A o \in names : TextLessEq(n, o)
         IN  <<least>> \o SortedText(names \ {least})

get_categories(cats, cat_type) ==
    SortedText({c.name : c \in {r \in Rows(cats) : r.type = cat_type}})

(***************************************************************************)
(* CSVImporter.parse_csv and import_transactions                           *)
(*                                                                         *)
(* A CSV file is the sequence of its lines, each the sequence of its       *)
(* cells. Header names are distinct.                                       *)
(***************************************************************************)

\* row.get(col, default) on a csv.DictReader row: the cell under the column,
\* None when the row is too short to have one, the default when the header
\* does not name the column.
DictGet(fieldnames, cells, col, default) ==
    LET k == IF \E i \in 1..Len(fieldnames) : fieldnames[i] = col
             THEN CHOOSE i \in 1..Len(fieldnames) : fieldnames[i] = col ELSE 0 IN
    IF k = 0 THEN default
    ELSE IF k <= Len(cells) THEN cells[k] ELSE None

\* The data rows the reader yields: csv.DictReader takes the first line as
\* the header and skips blank lines; csv.reader yields every line.
ReaderRows(file, skip_header) ==
    IF skip_header
    THEN SelectSeq(SubSeq(file, 2, Len(file)), LAMBDA cells : cells # <<>>)
    ELSE file

\* One pass of the loop of parse_csv over row k; acc holds the transactions
\* appended and the lines printed so far. An exception outside the two
\* try blocks ends the call.
RECURSIVE RowLoop(_, _, _, _, _, _)
RowLoop(table, file, cols, skip_header, k, acc) ==
    LET rows == ReaderRows(file, skip_header) IN
    IF k > Len(rows) THEN [raised |-> "", transactions |-> acc.transactions,
                           printed |-> acc.printed]
    ELSE
    LET cells == rows[k]
        fieldnames == IF Len(file) > 0 THEN file[1] ELSE <<>>
    IN
    IF ~skip_header /\ Len(cells) < 3
    THEN [raised |-> "IndexError", transactions |-> <<>>, printed |-> acc.printed]
    ELSE
    LET date_str == IF skip_header THEN DictGet(fieldnames, cells, cols.date_col, "")
                    ELSE cells[1]
        description == IF skip_header THEN DictGet(fieldnames, cells, cols.desc_col, "")
                       ELSE cells[2]
        amount_str == IF skip_header THEN DictGet(fieldnames, cells, cols.amount_col, "0")
                      ELSE cells[3]
        date == _parse_date(date_str)
        parsed == _parse_amount(amount_str)
    IN
    IF date.raised # ""
    THEN RowLoop(table, file, cols, skip_header, k + 1,
                 [acc EXCEPT !.printed = Append(@,
                     [line |-> "Skipping row with invalid date", value |-> date_str])])
    ELSE IF parsed.raised # ""
    THEN RowLoop(table, file, cols, skip_header, k + 1,
                 [acc EXCEPT !.printed = Append(@,
                     [line |-> "Skipping row with invalid amount", value |-> amount_str])])
    ELSE IF description = None
    THEN [raised |-> "AttributeError", transactions |-> <<>>, printed |-> acc.printed]
    ELSE
    LET trans_type == IF Positive(parsed.ret) THEN "income" ELSE "expense"
        amount == Abs(parsed.ret)
        category == get_suggested_category(table, description,
                        IF trans_type = "income" THEN amount ELSE Negated(amount))
    IN  RowLoop(table, file, cols, skip_header, k + 1,
                [acc EXCEPT !.transactions = Append(@,
                    [date |-> date.ret, description |-> description, amount |-> amount,
                     category |-> category, type |-> trans_type])])

\* CSVImporter.parse_csv
parse_csv(table, file, cols, skip_header) ==
    RowLoop(table, file, cols, skip_header, 1, [transactions |-> <<>>, printed |-> <<>>])

\* The loop of import_transactions over the parsed transactions, from
\* transaction k on: each is inserted, or its error printed.
RECURSIVE InsertLoop(_, _, _)
InsertLoop(parsed, k, acc) ==
    IF k > Len(parsed) THEN acc
    ELSE LET trans == parsed[k] IN
         IF InsertRaises(trans.amount) # ""
         THEN InsertLoop(parsed, k + 1,
                  [acc EXCEPT !.printed = Append(@,
                      [line |-> "Error importing transaction", value |-> InsertRaises(trans.amount)])])
         ELSE InsertLoop(parsed, k + 1,
                  [acc EXCEPT !.table = Inserted(@, acc.next_id, trans.date, trans.description,
                                                 trans.amount, trans.category, trans.type),
                              !.next_id = @ + 1,
                              !.count = @ + 1])

\* CSVImporter.import_transactions after its call of parse_csv: what is
\* raised, returned and printed, and the transactions table and its counter
\* afterwards. An exception of parse_csv leaves through the caller.
import_transactions(parsed, store, id) ==
    IF parsed.raised # ""
    THEN [raised |-> parsed.raised, count |-> 0, printed |-> parsed.printed,
          table |-> store, next_id |-> id]
    ELSE LET done == InsertLoop(parsed.transactions, 1,
                        [table |-> store, next_id |-> id, count |-> 0,
                         printed |-> parsed.printed])
         IN  [raised |-> "", count |-> done.count, printed |-> done.printed,
              table |-> done.table, next_id |-> done.next_id]

(***************************************************************************)
(* Construction                                                            *)
(***************************************************************************)

\* The state after FinanceTrackerApp.__init__ on a fresh database file.
Init ==
    /\ category_keywords = DefaultKeywords
    /\ transactions = <<>>
    /\ categories = DefaultCategories
    /\ next_id = 1
    /\ last = [op |-> "init"]

(***************************************************************************)
(* FinanceTrackerApp: the menu handlers that change the store              *)
(***************************************************************************)

\* The highest id the transactions table hands out in a run.
MaxId == 4

\* What datetime.now() can be when a date is left empty.
Todays == {"2025-01-01"}

\* What is typed at the prompts of add_transaction: the date ("" is Enter),
\* the description, the amount as the float it parses to, and the answer to
\* "Select category number" ("" is Enter).
ManualEntries == {
    <<"", "Salary - ABC Corp", Money(3500, 0), "">>,
    <<"12/31/2024", "xyz", Money(-82, 0), "">>,
    <<"2024-12-31", "Salary refund", Money(-38, 0), "2">>,
    <<"", "xyz", NaN, "">> }

\* The files imported, by path.
CsvFiles ==
    ("bank.csv" :> <<
        <<"Date", "Description", "Amount">>,
        <<"2024-12-31", "xyz", "-82.00">>,
        <<"12/31/2024", "Unknown transaction XYZ123", "($38.00)">>,
        <<"31.12.2024", "xyz", "-38.00">>,
        <<"Jan 1, 2025", "Salary refund", "-38">>,
        <<"2025-01-01", "Salary - ABC Corp", "3,500.00">> >>)
    @@ ("reordered.csv" :> <<
        <<"Date", "Amount", "Description">>,
        <<"2024-12-31", "-38", "xyz">>,
        <<"2025-01-01", "abc", "xyz">>,
        <<"2025-01-01", "-82">> >>)
    @@ ("short.csv" :> <<
        <<"Date", "Description", "Amount">>,
        <<"2024-12-31", "xyz", "-38">>,
        <<"2025-01-01", "xyz">>,
        <<>>,
        <<"2025-01-01", "xyz", "nan">>,
        <<"2025-01-01", "xyz", "0.00">> >>)

\* The column names import_csv passes by default.
DefaultColumns == [date_col |-> "Date", desc_col |-> "Description", amount_col |-> "Amount"]

\* parse_csv of each file, with and without a header, as import_transactions
\* calls it. The importer classifies with the categorizer its constructor
\* makes, which no handler changes.
ParsedFiles ==
    [filepath \in DOMAIN CsvFiles |->
        [skip_header \in BOOLEAN |->
            parse_csv(DefaultKeywords, CsvFiles[filepath], DefaultColumns, skip_header)]]

\* The budget limits typed in manage_categories, by category name.
BudgetUpdates == {
    <<"Other Expenses", 0>>, <<"Other Expenses", Money(120, 0)>>,
    <<"Salary", Money(47, 50)>>, <<"Pets", Money(47, 50)>> }

\* int(cat_input): the number, or ValueError.
IntOf(text) ==
    LET t == Strip(text)
        negative == t # "" /\ CharAt(t, 1) = "-"
        body == IF negative THEN Tail(t) ELSE t
    IN  IF body # "" /\ AllDigits(body)
        THEN Returns(IF negative THEN -Number(body) ELSE Number(body))
        ELSE Raises("ValueError")

\* The category add_transaction stores: categories[int(cat_input) - 1][0],
\* a negative index counting from the end, and the suggested category when
\* the input is empty, no number or out of range.
ChosenCategory(names, cat_input, suggested) ==
    LET n == IntOf(cat_input)
        cat_idx == n.ret - 1
    IN  IF cat_input = "" \/ n.raised # "" THEN suggested
        ELSE IF cat_idx >= 0 /\ cat_idx < Len(names) THEN names[cat_idx + 1]
        ELSE IF cat_idx < 0 /\ -cat_idx <= Len(names) THEN names[Len(names) + cat_idx + 1]
        ELSE suggested

\* FinanceTrackerApp.add_transaction, with the amount the prompt loop ends on.
AddTransaction(date_input, today, description, typed, cat_input) ==
    LET date == IF date_input = "" THEN today ELSE date_input
        trans_type == IF Positive(typed) THEN "income" ELSE "expense"
        amount == IF Positive(typed) THEN typed ELSE Abs(typed)
        names == get_categories(categories, trans_type)
        suggested == get_suggested_category(category_keywords, description, amount)
        category == ChosenCategory(names, cat_input, suggested)
    IN
    /\ next_id <= MaxId
    /\ IF InsertRaises(amount) # ""
       THEN /\ last' = [op |-> "add_transaction", suggested |-> suggested,
                        raised |-> InsertRaises(amount)]
            /\ UNCHANGED <<transactions, next_id>>
       ELSE /\ transactions' = Inserted(transactions, next_id, date, description, amount,
                                        category, trans_type)
            /\ next_id' = next_id + 1
            /\ last' = [op |-> "add_transaction", suggested |-> suggested,
                        cat_input |-> cat_input, typed |-> typed, raised |-> "",
                        ret |-> next_id]
    /\ UNCHANGED <<category_keywords, categories>>

\* FinanceTrackerApp.import_csv, and import_transactions called without a header.
ImportCsv(filepath, skip_header) ==
    LET done == import_transactions(ParsedFiles[filepath][skip_header], transactions, next_id)
    IN
    /\ done.next_id <= MaxId + 1
    /\ transactions' = done.table
    /\ next_id' = done.next_id
    /\ last' = [op |-> "import_transactions", filepath |-> filepath,
                skip_header |-> skip_header, raised |-> done.raised,
                ret |-> done.count, printed |-> done.printed]
    /\ UNCHANGED <<category_keywords, categories>>

\* The date n days before a date.
RECURSIVE DaysBefore(_, _)
DaysBefore(dt, n) ==
    IF n < dt.day THEN [dt EXCEPT !.day = @ - n]
    ELSE LET before == IF dt.month = 1 THEN [year |-> dt.year - 1, month |-> 12]
                       ELSE [year |-> dt.year, month |-> dt.month - 1]
         IN  DaysBefore([year |-> before.year, month |-> before.month,
                         day |-> DaysInMonth(before.year, before.month)], n - dt.day)

\* The transactions delete_transaction lists before it asks for an id:
\* get_transactions(start_date, end_date) over the last 30 days, as a set.
RecentTransactions(table, today) ==
    LET now == [year |-> Number(SubSeq(today, 1, 4)), month |-> Number(SubSeq(today, 6, 7)),
                day |-> Number(SubSeq(today, 9, 10))]
        start_date == strftime(DaysBefore(now, 30))
        end_date == today
    IN  {r \in Rows(table) : TextLessEq(start_date, r.date) /\ TextLessEq(r.date, end_date)}

\* FinanceTrackerApp.delete_transaction with an id typed and the deletion
\* confirmed: it returns early when no transaction of the last 30 days is
\* listed.
DeleteTransaction(today, trans_id) ==
    /\ RecentTransactions(transactions, today) # {}
    /\ transactions' = delete_transaction(transactions, trans_id)
    /\ last' = [op |-> "delete_transaction", transaction_id |-> trans_id, raised |-> ""]
    /\ UNCHANGED <<category_keywords, categories, next_id>>

\* FinanceTrackerApp.manage_categories, action 1.
UpdateBudgetLimit(category, new_limit) ==
    /\ categories' = update_budget_limit(categories, category, new_limit)
    /\ last' = [op |-> "update_budget_limit", category |-> category, raised |-> ""]
    /\ UNCHANGED <<category_keywords, transactions, next_id>>

Next ==
    \/ \E entry \in ManualEntries, today \in Todays :
            AddTransaction(entry[1], today, entry[2], entry[3], entry[4])
    \/ \E filepath \in DOMAIN CsvFiles, skip_header \in BOOLEAN : ImportCsv(filepath, skip_header)
    \/ \E today \in Todays, trans_id \in 1..MaxId : DeleteTransaction(today, trans_id)
    \/ \E u \in BudgetUpdates : UpdateBudgetLimit(u[1], u[2])

Spec == Init /\ [][Next]_vars

(***************************************************************************)
(* The categorizer on its own: calls of its three public methods           *)
(***************************************************************************)

\* How many add_keyword calls that change the table a run makes.
MaxAddedKeywords == 2

\* The categories add_keyword is called with: an existing one, the name of
\* the unmatched default, and a new one.
KeywordCategories == {"Shopping", "Other Expenses", "Pets"}

\* The keywords add_keyword is called with.
NewKeywords == {"MyStore", "xyz"}

\* The descriptions classified.
Descriptions == {
    "Purchase at MyStore", "STARBUCKS COFFEE", "Unknown transaction XYZ123",
    "Salary payment", "Freelance project", "Gas bill", "Grocery refund" }

\* The signed amounts classified.
SignedAmounts == {-50, 0, 3000}

RECURSIVE KeywordCount(_, _)
KeywordCount(table, i) ==
    IF i > Len(table) THEN 0 ELSE Len(table[i].keywords) + KeywordCount(table, i + 1)

AddKeyword(category, keyword) ==
    /\ KeywordCount(category_keywords, 1) < KeywordCount(DefaultKeywords, 1) + MaxAddedKeywords
    /\ category_keywords' = add_keyword(category_keywords, category, keyword)
    /\ last' = [op |-> "add_keyword", category |-> category, keyword |-> keyword]
    /\ UNCHANGED <<transactions, categories, next_id>>

Categorize(description) ==
    /\ last' = [op |-> "categorize", description |-> description,
                ret |-> categorize(category_keywords, description)]
    /\ UNCHANGED <<category_keywords, transactions, categories, next_id>>

GetSuggestedCategory(description, amount) ==
    /\ last' = [op |-> "get_suggested_category", description |-> description,
                amount |-> amount,
                ret |-> get_suggested_category(category_keywords, description, amount)]
    /\ UNCHANGED <<category_keywords, transactions, categories, next_id>>

NextCategorizer ==
    \/ \E c \in KeywordCategories, k \in NewKeywords : AddKeyword(c, k)
    \/ \E d \in Descriptions : Categorize(d)
    \/ \E d \in Descriptions, a \in SignedAmounts : GetSuggestedCategory(d, a)

SpecCategorizer == Init /\ [][NextCategorizer]_vars

(***************************************************************************)
(* Properties of the categorizer                                           *)
(***************************************************************************)

\* The table positions whose category has a keyword occurring in the text.
MatchingPositions(table, text) ==
    {i \in 1..Len(table) : \E j \in 1..Len(table[i].keywords) :
        IsSubstring(table[i].keywords[j], text)}

\* The least element of a non-empty set of positions.
Least(S) == CHOOSE i \in S : \A j \in S : i <= j

\* What the income re-check answers for a description.
IncomeCategory(description) ==
    IF \E w \in {"salary", "payroll", "employer"} : IsSubstring(w, Lower(description))
    THEN "Salary"
    ELSE IF \E w \in {"freelance", "consulting", "contract"} : IsSubstring(w, Lower(description))
    THEN "Freelance"
    ELSE "Other Income"

\* C1: categorize returns the first category, in table order, one of whose
\* keywords occurs in the lowercased description, and "Other Expenses" when
\* no category has one; this for every table add_keyword calls have built.
C1_CategorizeFirstMatch ==
    last.op = "categorize" =>
        LET M == MatchingPositions(category_keywords, Lower(last.description)) IN
        last.ret = IF M = {} THEN "Other Expenses" ELSE category_keywords[Least(M)].name

\* C1 witness: a description in mixed case classified by a keyword of its
\* first matching category, in a table add_keyword has changed.
C1_Witness ==
    /\ last.op = "categorize"
    /\ last.description = "Purchase at MyStore"
    /\ last.ret = "Shopping"
    /\ category_keywords # DefaultKeywords

\* C2 as stated: the result of categorize is overridden only when no
\* keyword matched and the amount is positive; a description that matched a
\* keyword keeps its category.
C2_OverrideOnlyUnmatched ==
    last.op = "get_suggested_category" =>
        LET M == MatchingPositions(category_keywords, Lower(last.description)) IN
        last.ret = IF M = {} /\ last.amount > 0
                   THEN IncomeCategory(last.description)
                   ELSE categorize(category_keywords, last.description)

\* C2 amended: the result of categorize is overridden exactly when the
\* amount is positive and the category categorize returned has a name that
\* starts with "Other", be it the unmatched default or a category of that
\* name matched by a keyword; the override is the income re-check's answer.
C2_OverrideOtherPrefixed ==
    last.op = "get_suggested_category" =>
        LET M == MatchingPositions(category_keywords, Lower(last.description))
            base == IF M = {} THEN "Other Expenses" ELSE category_keywords[Least(M)].name
        IN  last.ret = IF last.amount > 0 /\ Len(base) >= 5 /\ SubSeq(base, 1, 5) = "Other"
                       THEN IncomeCategory(last.description)
                       ELSE base

\* C2 witness: a keyword-matched "Other Expenses" overridden for a positive amount.
C2_Witness ==
    /\ last.op = "get_suggested_category"
    /\ last.amount > 0
    /\ MatchingPositions(category_keywords, Lower(last.description)) # {}
    /\ categorize(category_keywords, last.description) = "Other Expenses"
    /\ last.ret = "Other Income"

(***************************************************************************)
(* The date parser on its own: calls of _parse_date                        *)
(***************************************************************************)

\* The years of the dates written out and parsed back.
FirstYear == 2024

LastYear == 2025

\* The days of the month tried: the first, days up to 12 (which can be read
\* as a month), 13, and the month ends.
WrittenDays == {1, 5, 12, 13, 28, 29, 30, 31}

\* The calendar dates written out.
WrittenDates ==
    {dt \in [year : FirstYear..LastYear, month : 1..12, day : WrittenDays] :
        dt.day <= DaysInMonth(dt.year, dt.month)}

\* Strings that are no date written by a format, or not the padded way.
OddDateStrings == {
    "", "not a date", "31.12.2024", "2024-02-30", "02/29/2025", "13/13/2024",
    "  2024-12-31 ", "2024-1-5", "1/5/2024", "Jan  5, 2024", "DECEMBER 31, 2024",
    "2024-12-31T00:00", "0999-01-02", "0000-01-01" }

\* str.capitalize() of a lowercase word.
Capitalize(w) ==
    CharAt(UpperChars, CHOOSE i \in 1..Len(LowerChars) : CharAt(LowerChars, i) = CharAt(w, 1))
        \o Tail(w)

\* One item of a format written for a date, zero-padded as strftime pads.
RECURSIVE FormatItems(_, _, _)
FormatItems(dt, fmt, j) ==
    IF j > Len(fmt) THEN ""
    ELSE (CASE fmt[j] = "%Y" -> Pad4(dt.year)
            [] fmt[j] = "%m" -> Pad2(dt.month)
            [] fmt[j] = "%d" -> Pad2(dt.day)
            [] fmt[j] = "%b" -> Capitalize(MonthAbbr(dt.month))
            [] fmt[j] = "%B" -> Capitalize(MonthNames[dt.month])
            [] OTHER -> fmt[j]) \o FormatItems(dt, fmt, j + 1)

\* The date dt written in the f-th supported format.
FormatAs(dt, f) == FormatItems(dt, date_formats[f], 1)

\* The canonical YYYY-MM-DD form of a date.
Canonical(dt) == Pad4(dt.year) \o "-" \o Pad2(dt.month) \o "-" \o Pad2(dt.day)

\* The calls made: a written date, or an odd string, handed to _parse_date.
DateInputs ==
    {[op |-> "input", date_str |-> FormatAs(w[1], w[2]), written |-> w[1], format |-> w[2]]
        : w \in WrittenDates \X (1..Len(date_formats))}
    \cup {[op |-> "input", date_str |-> date_str] : date_str \in OddDateStrings}

InitNormalizer ==
    /\ category_keywords = DefaultKeywords
    /\ transactions = <<>>
    /\ categories = DefaultCategories
    /\ next_id = 1
    /\ last \in DateInputs

\* One call of _parse_date on the input drawn.
ParseDate ==
    /\ last.op = "input"
    /\ last' = [f \in DOMAIN last \cup {"result"} |->
                    IF f = "op" THEN "_parse_date"
                    ELSE IF f = "result" THEN _parse_date(last.date_str)
                    ELSE last[f]]
    /\ UNCHANGED <<category_keywords, transactions, categories, next_id>>

NextNormalizer == ParseDate

SpecNormalizer == InitNormalizer /\ [][NextNormalizer]_vars

(***************************************************************************)
(* Properties of the date parser                                           *)
(***************************************************************************)

\* The positions of DD/MM/YYYY and DD-MM-YYYY in the list of formats.
DayFirstFormats == {3, 6}

BoundaryDays ==
    {dt \in [year : FirstYear..LastYear, month : 1..12, day : 1..31] :
        dt.day \in {1, DaysInMonth(dt.year, dt.month)}}

\* Dates the store holds that are not in canonical form: add_transaction
\* stores the text it is given.
OddStoredDates == {"12/31/2024", "2024-2-05", "Dec 31, 2024"}

\* The month that follows a month.
MonthAfter(year, month) ==
    IF month = 12 THEN [year |-> year + 1, month |-> 1] ELSE [year |-> year, month |-> month + 1]

\* The stores summarised: one transaction on a boundary day or with an odd
\* date, or an expense on the last day of a month and an income on the
\* first day of the month after it.
LedgerTables ==
    {Inserted(<<>>, 1, date, "xyz", Money(82, 0), "Other Expenses", "expense")
        : date \in {Canonical(dt) : dt \in BoundaryDays} \cup OddStoredDates}
    \cup {Inserted(
              Inserted(<<>>, 1,
                  Canonical([year |-> ym[1], month |-> ym[2], day |-> DaysInMonth(ym[1], ym[2])]),
                  "xyz", Money(82, 0), "Other Expenses", "expense"),
              2,
              Canonical([year |-> MonthAfter(ym[1], ym[2]).year,
                         month |-> MonthAfter(ym[1], ym[2]).month, day |-> 1]),
              "Salary - ABC Corp", Money(3500, 0), "Salary", "income")
            : ym \in (FirstYear..LastYear) \X (1..12)}

InitLedger ==
    /\ category_keywords = DefaultKeywords
    /\ transactions \in LedgerTables
    /\ categories = DefaultCategories
    /\ next_id = Len(transactions) + 1
    /\ last = [op |-> "input"]

\* One call of get_monthly_summary on the store drawn.
GetMonthlySummary(year, month) ==
    /\ last.op = "input"
    /\ last' = [op |-> "get_monthly_summary", year |-> year, month |-> month,
                ret |-> get_monthly_summary(transactions, year, month)]
    /\ UNCHANGED <<category_keywords, transactions, categories, next_id>>

NextLedger == \E year \in FirstYear..LastYear, month \in 1..12 : GetMonthlySummary(year, month)

SpecLedger == InitLedger /\ [][NextLedger]_vars

(***************************************************************************)
(* Properties of the store, the importer and the monthly queries           *)
(***************************************************************************)

\* A text is the canonical form of a calendar date.
IsCanonical(date) ==
    /\ Len(date) = 10
    /\ CharAt(date, 5) = "-" /\ CharAt(date, 8) = "-"
    /\ AllDigits(SubSeq(date, 1, 4)) /\ AllDigits(SubSeq(date, 6, 7))
    /\ AllDigits(SubSeq(date, 9, 10))
    /\ Number(SubSeq(date, 1, 4)) >= 1
    /\ Number(SubSeq(date, 6, 7)) \in 1..12
    /\ Number(SubSeq(date, 9, 10))
            \in 1..DaysInMonth(Number(SubSeq(date, 1, 4)), Number(SubSeq(date, 6, 7)))

\* The months the queries are asked for: the month before the turn of the
\* year and the month after it.
QueryMonths == {<<2024, 12>>, <<2025, 1>>}

\* The first day of a month in canonical form.
FirstDayOf(year, month) == Canonical([year |-> year, month |-> month, day |-> 1])

\* The first day of the month that follows: January of the next year after
\* December.
FirstDayAfter(year, month) ==
    IF month = 12 THEN FirstDayOf(year + 1, 1) ELSE FirstDayOf(year, month + 1)

\* A stored date lies in the half-open interval of the month.
InMonth(date, year, month) ==
    TextLessEq(FirstDayOf(year, month), date) /\ TextLess(date, FirstDayAfter(year, month))

\* A stored date is dated in a month: a calendar date when it is a day of
\* that month of that year, any other text when it lies in the half-open
\* interval of the month.
DatedIn(date, year, month) ==
    IF IsCanonical(date)
    THEN Number(SubSeq(date, 1, 4)) = year /\ Number(SubSeq(date, 6, 7)) = month
    ELSE InMonth(date, year, month)

\* The total of the amounts of the rows at a set of positions of a table.
RECURSIVE TotalAt(_, _)
TotalAt(table, positions) ==
    IF positions = {} THEN 0
    ELSE LET i == CHOOSE i \in positions : TRUE
         IN  table[i].amount + TotalAt(table, positions \ {i})

\* The total of the transactions of a type dated in a month.
TotalOfType(table, trans_type, year, month) ==
    TotalAt(table, {i \in 1..Len(table) :
        table[i].type = trans_type /\ DatedIn(table[i].date, year, month)})

\* The total of the expense transactions of a category dated in a month.
ExpenseTotal(table, category, year, month) ==
    TotalAt(table, {i \in 1..Len(table) :
        /\ table[i].type = "expense"
        /\ table[i].category = category
        /\ DatedIn(table[i].date, year, month)})

\* The greatest common divisor of two naturals, not both 0.
RECURSIVE Gcd(_, _)
Gcd(a, b) == IF b = 0 THEN a ELSE Gcd(b, a % b)

\* A fraction of naturals in lowest terms.
Lowest(fraction) ==
    LET g == Gcd(fraction.num, fraction.den)
    IN  [num |-> fraction.num \div g, den |-> fraction.den \div g]

\* The rows the last call stored: the one of a manual entry that accepted
\* the suggested category, or those of an import.
ClassifiedRows ==
    IF last.op = "add_transaction" /\ last.raised = "" /\ last.cat_input = ""
    THEN {transactions[Len(transactions)]}
    ELSE IF last.op = "import_transactions"
    THEN {transactions[i] : i \in (Len(transactions) - last.ret + 1)..Len(transactions)}
    ELSE {}

\* C3: a transaction produced by classification (an imported row, or a
\* manual entry that accepted the suggested category) carries a category of
\* the store whose type is the type of the transaction.
C3_CategoryTypeMatches ==
    \A r \in ClassifiedRows :
        \E c \in Rows(categories) : c.name = r.category /\ c.type = r.type

\* C5: an import never aborts: the call returns, and every data row of the
\* file, also one that follows a failing row, is either imported or reported.
C5_ImportNeverAborts ==
    last.op = "import_transactions" =>
        /\ last.raised = ""
        /\ last.ret + Len(last.printed)
                = Len(ReaderRows(CsvFiles[last.filepath], last.skip_header))

\* The data rows of a file whose date and amount both parse.
ParsingRows(file, skip_header) ==
    LET rows == ReaderRows(file, skip_header) IN
    {k \in 1..Len(rows) :
        LET date_str == IF skip_header THEN DictGet(file[1], rows[k], DefaultColumns.date_col, "")
                        ELSE rows[k][1]
            amount_str == IF skip_header
                          THEN DictGet(file[1], rows[k], DefaultColumns.amount_col, "0")
                          ELSE rows[k][3]
        IN  _parse_date(date_str).raised = "" /\ _parse_amount(amount_str).raised = ""}

\* C6: an import returns the number of rows whose date and amount both
\* parse, and reports exactly one failure for each other row, which names
\* the index of that row.
C6_CountAndFailures ==
    (last.op = "import_transactions" /\ last.raised = "") =>
        LET file == CsvFiles[last.filepath]
            rows == ReaderRows(file, last.skip_header)
            parsing == ParsingRows(file, last.skip_header)
            failing == (1..Len(rows)) \ parsing
        IN  /\ last.ret = Cardinality(parsing)
            /\ Len(last.printed) = Cardinality(failing)
            /\ \A k \in failing : \E j \in 1..Len(last.printed) :
                    /\ "row_index" \in DOMAIN last.printed[j]
                    /\ last.printed[j].row_index = k

\* C7: the monthly summary counts exactly the transactions dated from the
\* first day of the month up to, not including, the first day of the month
\* after it, which is January of the next year for December: its income
\* and its expenses are the totals of just these transactions.
C7_HalfOpenMonth ==
    last.op = "get_monthly_summary" =>
        /\ last.ret.income = TotalOfType(transactions, "income", last.year, last.month)
        /\ last.ret.expenses = TotalOfType(transactions, "expense", last.year, last.month)

\* C7 witness: the summary of December 2024 counts the expense of
\* 2024-12-31 and leaves out the income of 2025-01-01.
C7_Witness ==
    /\ last.op = "get_monthly_summary"
    /\ last.year = 2024 /\ last.month = 12
    /\ Len(transactions) = 2
    /\ transactions[1].date = "2024-12-31"
    /\ transactions[2].date = "2025-01-01"
    /\ last.ret.expenses = transactions[1].amount
    /\ last.ret.income = 0

\* C8: whatever was added and deleted, the monthly summary reports as income
\* the total of the stored income transactions of the month, as expenses
\* the total of the stored expense transactions of the month, 0 for a type
\* without transactions in the month, and as balance income less expenses.
C8_SummaryTotals ==
    \A ym \in QueryMonths :
        LET summary == get_monthly_summary(transactions, ym[1], ym[2]) IN
        /\ summary.income = TotalOfType(transactions, "income", ym[1], ym[2])
        /\ summary.expenses = TotalOfType(transactions, "expense", ym[1], ym[2])
        /\ summary.balance = summary.income - summary.expenses

\* C8 witness: after a deletion, December 2024 holds two expenses and no
\* income, January 2025 an income and no expense.
C8_Witness ==
    /\ last.op = "delete_transaction"
    /\ get_monthly_summary(transactions, 2024, 12)
            = [income |-> 0, expenses |-> Money(76, 0), balance |-> -Money(76, 0),
               month |-> "2024-12"]
    /\ get_monthly_summary(transactions, 2025, 1)
            = [income |-> Money(3500, 0), expenses |-> 0, balance |-> Money(3500, 0),
               month |-> "2025-01"]

\* C9: the budget alerts of a month name a category exactly when it is an
\* expense category with a limit above 0 and the expenses of the month in
\* it are at least 0.8 times the limit.
C9_AlertsExactlyEligible ==
    \A ym \in QueryMonths : \A c \in Rows(categories) :
        (\E alert \in BudgetAlertRows(transactions, categories, ym[1], ym[2]) :
            alert.category = c.name)
        <=> /\ c.type = "expense"
            /\ c.budget_limit > 0
            /\ 10 * ExpenseTotal(transactions, c.name, ym[1], ym[2]) >= 8 * c.budget_limit

\* C10: every budget alert carries what was spent in the category in the
\* month, the limit of the category and the percentage spent / limit x 100,
\* and its status is EXCEEDED exactly when what was spent is at least the
\* limit (a percentage of at least 100) and WARNING otherwise.
C10_PercentageAndStatus ==
    \A ym \in QueryMonths :
        \A alert \in BudgetAlertRows(transactions, categories, ym[1], ym[2]) :
            /\ alert.spent = ExpenseTotal(transactions, alert.category, ym[1], ym[2])
            /\ \E c \in Rows(categories) :
                    c.name = alert.category /\ c.budget_limit = alert.limit
            /\ Lowest(alert.percentage) = Lowest([num |-> alert.spent * 100, den |-> alert.limit])
            /\ AlertStatus(alert) =
                    IF alert.spent >= alert.limit THEN "[!] EXCEEDED" ELSE "[!] WARNING"

\* C10 witness: what was spent equals the limit, and the alert is EXCEEDED.
C10_Witness ==
    \E alert \in BudgetAlertRows(transactions, categories, 2024, 12) :
        /\ alert.category = "Other Expenses"
        /\ alert.spent = Money(120, 0)
        /\ alert.limit = Money(120, 0)
        /\ AlertStatus(alert) = "[!] EXCEEDED"

(***************************************************************************)
(* The ordered queries and the views on their own: calls of                *)
(* check_budget_alerts, get_category_spending and view_monthly_summary     *)
(*                                                                         *)
(* A SELECT returns its rows in the order its ORDER BY fixes; rows the     *)
(* ORDER BY ranks equal come in an order SQL leaves to the engine, and the *)
(* result is any of the lists the ORDER BY allows.                         *)
(***************************************************************************)

\* p < q for two percentages kept as fractions.
PercentageLess(p, q) ==
    LET a == Lowest(p)
        b == Lowest(q)
    IN  a.num * b.den < b.num * a.den

\* The lists of all the rows of a set, each row once: the orders in which
\* a SELECT without ORDER BY may return them.
Listings(rows) ==
    {s \in [1..Cardinality(rows) -> rows] :
        \A r \in rows : \E i \in 1..Cardinality(rows) : s[i] = r}

\* FinanceDatabase.check_budget_alerts: the lists the query may return,
\* ORDER BY percentage DESC.
check_budget_alerts(table, cats, year, month) ==
    {alerts \in Listings(BudgetAlertRows(table, cats, year, month)) :
        \A i \in 1..Len(alerts), j \in 1..Len(alerts) :
            i < j => ~PercentageLess(alerts[i].percentage, alerts[j].percentage)}

\* The rows of the query of get_category_spending before ORDER BY: one for
\* each category of the expense transactions with date BETWEEN start_date
\* AND end_date.
CategorySpendingRows(table, start_date, end_date) ==
    LET selected == {r \in Rows(table) :
                        /\ r.type = "expense"
                        /\ TextLessEq(start_date, r.date)
                        /\ TextLessEq(r.date, end_date)}
    IN  {[category |-> c, total |-> SumAmount({r \in selected : r.category = c})]
            : c \in {r.category : r \in selected}}

\* FinanceDatabase.get_category_spending: the lists the query may return,
\* ORDER BY total DESC.
get_category_spending(table, start_date, end_date) ==
    {spending \in Listings(CategorySpendingRows(table, start_date, end_date)) :
        \A i \in 1..Len(spending), j \in 1..Len(spending) :
            i < j => spending[i].total >= spending[j].total}

\* The transactions the stores queried are made of, each classified as the
\* importer classifies it: three categories spent to their default limit,
\* two of them with the same total, one spent to nine tenths of it, an
\* expense on the first day of the month after, and an income.
ReportEntries == <<
    [date |-> "2025-01-10", description |-> "Uber ride",         amount |-> Money(-200, 0)],
    [date |-> "2025-01-15", description |-> "Pharmacy",          amount |-> Money(-200, 0)],
    [date |-> "2025-01-31", description |-> "Amazon purchase",   amount |-> Money(-300, 0)],
    [date |-> "2025-01-20", description |-> "xyz",               amount |-> Money(-90, 0)],
    [date |-> "2025-02-01", description |-> "Doctor",            amount |-> Money(-160, 0)],
    [date |-> "2025-01-05", description |-> "Salary - ABC Corp", amount |-> Money(3500, 0)] >>

\* The most transactions a store queried holds.
MaxReportRows == 3

\* The table after inserting the entries of the given positions, in order.
RECURSIVE ReportTable(_)
ReportTable(positions) ==
    IF positions = <<>> THEN <<>>
    ELSE LET entry == ReportEntries[positions[Len(positions)]]
         IN  Inserted(ReportTable(SubSeq(positions, 1, Len(positions) - 1)),
                      Len(positions), entry.date, entry.description, Abs(entry.amount),
                      get_suggested_category(DefaultKeywords, entry.description, entry.amount),
                      IF Positive(entry.amount) THEN "income" ELSE "expense")

\* The stores queried: up to MaxReportRows different entries, inserted in
\* every order.
ReportTables ==
    {ReportTable(positions) :
        positions \in {p \in UNION {[1..n -> 1..Len(ReportEntries)] : n \in 1..MaxReportRows} :
                            \A i \in 1..Len(p), j \in 1..Len(p) : i # j => p[i] # p[j]}}

\* The months queried.
ReportMonths == {<<2025, 1>>, <<2025, 2>>}

\* The date ranges get_category_spending is called with: a month to its
\* last day, and a month to the first day of the next.
ReportRanges == {<<"2025-01-01", "2025-01-31">>, <<"2025-01-01", "2025-02-01">>}

InitReports ==
    /\ category_keywords = DefaultKeywords
    /\ transactions \in ReportTables
    /\ categories = DefaultCategories
    /\ next_id = Len(transactions) + 1
    /\ last = [op |-> "input"]

\* FinanceTrackerApp.check_budget_alerts in the given month: one call of
\* check_budget_alerts on the store drawn.
CheckBudgetAlerts(year, month) ==
    /\ last.op = "input"
    /\ \E alerts \in check_budget_alerts(transactions, categories, year, month) :
            last' = [op |-> "check_budget_alerts", year |-> year, month |-> month,
                     ret |-> alerts]
    /\ UNCHANGED <<category_keywords, transactions, categories, next_id>>

\* One call of get_category_spending on the store drawn.
GetCategorySpending(start_date, end_date) ==
    /\ last.op = "input"
    /\ \E spending \in get_category_spending(transactions, start_date, end_date) :
            last' = [op |-> "get_category_spending", start_date |-> start_date,
                     end_date |-> end_date, ret |-> spending]
    /\ UNCHANGED <<category_keywords, transactions, categories, next_id>>

\* FinanceTrackerApp.view_monthly_summary of the given month: the summary
\* and the category breakdown it prints.
ViewMonthlySummary(year, month) ==
    /\ last.op = "input"
    /\ \E spending \in get_category_spending(transactions, MonthStart(year, month),
                                             MonthEnd(year, month)) :
            last' = [op |-> "view_monthly_summary", year |-> year, month |-> month,
                     summary |-> get_monthly_summary(transactions, year, month),
                     category_spending |-> spending]
    /\ UNCHANGED <<category_keywords, transactions, categories, next_id>>

NextReports ==
    \/ \E ym \in ReportMonths : CheckBudgetAlerts(ym[1], ym[2])
    \/ \E range \in ReportRanges : GetCategorySpending(range[1], range[2])
    \/ \E ym \in ReportMonths : ViewMonthlySummary(ym[1], ym[2])

SpecReports == InitReports /\ [][NextReports]_vars

(***************************************************************************)
(* Properties of the ordered queries and the views                         *)
(***************************************************************************)

C12_SpendingOrder ==
    last.op = "get_category_spending" =>
        \A i \in 1..Len(last.ret), j \in 1..Len(last.ret) :
            i < j =>
                \/ last.ret[i].total > last.ret[j].total
                \/ /\ last.ret[i].total = last.ret[j].total
                   /\ TextLess(last.ret[i].category, last.ret[j].category)

(***************************************************************************)
(* Properties of the single-record operations and of the stored fields     *)
(***************************************************************************)

\* C13: a delete_transaction of an id the store does not hold fails with
\* NotFoundError and leaves the store as it was.
C13_DeleteAbsentFails ==
    [][(/\ last'.op = "delete_transaction"
        /\ \A i \in 1..Len(transactions) : transactions[i].id # last'.transaction_id)
            => (last'.raised = "NotFoundError" /\ transactions' = transactions)]_vars

\* C14: an update_budget_limit of a name that is no category fails with
\* NotFoundError, and the categories stay the default ones with the limits
\* the earlier updates gave them.
C14_UpdateUnknownFails ==
    (/\ last.op = "update_budget_limit"
     /\ \A i \in 1..Len(categories) : categories[i].name # last.category)
        => last.raised = "NotFoundError"

\* The amount cell of data row k of a file, as parse_csv reads it.
AmountCell(file, skip_header, k) ==
    LET rows == ReaderRows(file, skip_header)
    IN  IF skip_header THEN DictGet(file[1], rows[k], DefaultColumns.amount_col, "0")
        ELSE rows[k][3]

\* The signed amounts entered by the rows of a file that reach the store,
\* in row order, from row k on: those of the rows whose date and amount
\* parse, without the nan the store refuses.
RECURSIVE EnteredFrom(_, _, _)
EnteredFrom(file, skip_header, k) ==
    IF k > Len(ReaderRows(file, skip_header)) THEN <<>>
    ELSE LET signed == _parse_amount(AmountCell(file, skip_header, k))
         IN  (IF k \in ParsingRows(file, skip_header) /\ signed.ret # NaN
              THEN <<signed.ret>> ELSE <<>>)
             \o EnteredFrom(file, skip_header, k + 1)

\* The signed amounts the last call entered, one for each transaction it
\* stored, in the order stored.
EnteredAmounts ==
    IF last.op = "add_transaction" /\ last.raised = "" THEN <<last.typed>>
    ELSE IF last.op = "import_transactions" /\ last.raised = ""
    THEN EnteredFrom(CsvFiles[last.filepath], last.skip_header, 1)
    ELSE <<>>

\* C15: each transaction a manual entry or an import stores holds the
\* entered signed amount without its sign, as income when that amount is
\* above 0 and as expense otherwise; no stored amount is below 0.
C15_MagnitudeAndType ==
    /\ \A i \in 1..Len(transactions) : transactions[i].amount >= 0
    /\ Len(EnteredAmounts) <= Len(transactions)
    /\ \A j \in 1..Len(EnteredAmounts) :
            LET signed == EnteredAmounts[j]
                stored == transactions[Len(transactions) - Len(EnteredAmounts) + j]
            IN  /\ stored.amount = (IF signed < 0 THEN 0 - signed ELSE signed)
                /\ stored.type = (IF signed > 0 THEN "income" ELSE "expense")

\* An import has stored an expense of 0 entered as 0.00 after an expense
\* entered with a minus sign, and before it a manual entry an income.
C15_Witness ==
    /\ last.op = "import_transactions"
    /\ last.raised = ""
    /\ \E j \in 1..Len(EnteredAmounts) : EnteredAmounts[j] = 0
    /\ \E j \in 1..Len(EnteredAmounts) : EnteredAmounts[j] < 0
    /\ transactions[Len(transactions)].amount = 0
    /\ transactions[Len(transactions)].type = "expense"
    /\ \E i \in 1..Len(transactions) : transactions[i].type = "income"

\* C16: every stored transaction's date is a calendar date written
\* YYYY-MM-DD.
C16_StoredDatesCanonical ==
    \A i \in 1..Len(transactions) : IsCanonical(transactions[i].date)

(***************************************************************************)
(* The amount parser on its own: calls of _parse_amount                    *)
(***************************************************************************)

\* The numbers written: with and without a fraction, with thousands
\* separators, zero, and with nothing before the point.
WrittenNumbers == {"45.00", "1,234.56", "0", "1234", "12.5", ".5"}

\* The currency symbols written before a number, or none.
WrittenSymbols == {"", "$", "€", "£"}

\* The ways a number is written: as it is, with a minus sign, enclosed in
\* parentheses.
WrittenShapes == {"plain", "minus", "parentheses"}

\* A number written with a symbol in a shape, between two paddings.
Decorated(padding, symbol, shape, number) ==
    padding
        \o (CASE shape = "plain" -> symbol \o number
              [] shape = "minus" -> "-" \o symbol \o number
              [] shape = "parentheses" -> "(" \o symbol \o number \o ")")
        \o padding

\* Strings that are no decorated number, or an unusual one.
OddAmountStrings == {
    "", "abc", "nan", "NaN", "-nan", "(nan)", "$nan", "12.34.56", "--5", "(-5)", "(5", "5)",
    "-(5)", "((5))", ")5(", ")(5", "()", "$", "1,2,3", "- 5", "+5", "5.", ".", "4(5)",
    "$ 5", "5 $", "1 234" }

\* The calls made: a decorated number, or an odd string, handed to
\* _parse_amount.
AmountInputs ==
    {[op |-> "input", amount_str |-> Decorated(w[1], w[2], w[3], w[4])]
        : w \in {"", " "} \X WrittenSymbols \X WrittenShapes \X WrittenNumbers}
    \cup {[op |-> "input", amount_str |-> amount_str] : amount_str \in OddAmountStrings}

InitAmounts ==
    /\ category_keywords = DefaultKeywords
    /\ transactions = <<>>
    /\ categories = DefaultCategories
    /\ next_id = 1
    /\ last \in AmountInputs

\* One call of _parse_amount on the input drawn.
ParseAmount ==
    /\ last.op = "input"
    /\ last' = [op |-> "_parse_amount", amount_str |-> last.amount_str,
                result |-> _parse_amount(last.amount_str)]
    /\ UNCHANGED <<category_keywords, transactions, categories, next_id>>

NextAmounts == ParseAmount

SpecAmounts == InitAmounts /\ [][NextAmounts]_vars

(***************************************************************************)
(* Properties of the amount parser                                         *)
(***************************************************************************)

\* The value, in hundredths, of a decimal number: digits with at most one
\* point among them.
DecimalValue(digits) ==
    LET dot == Find(digits, ".")
        whole == IF dot = 0 THEN digits ELSE SubSeq(digits, 1, dot - 1)
        frac == IF dot = 0 THEN "" ELSE SubSeq(digits, dot + 1, Len(digits))
    IN  Number(whole) * 100 + (IF Len(frac) = 1 THEN 10 * Number(frac) ELSE Number(frac))

\* A decimal number without a sign: digits with at most one point among
\* them, at least one digit in all.
IsUnsignedDecimal(t) ==
    /\ \A i \in 1..Len(t) : IsDigit(CharAt(t, i)) \/ CharAt(t, i) = "."
    /\ Cardinality({i \in 1..Len(t) : CharAt(t, i) = "."}) <= 1
    /\ \E i \in 1..Len(t) : IsDigit(CharAt(t, i))

\* The characters parse_amount strips wherever they stand.
IsDecoration(c) == c \in {"$", "€", "£", ","}

\* A string without its decorations.
RECURSIVE Undecorated(_)
Undecorated(s) ==
    IF s = "" THEN ""
    ELSE (IF IsDecoration(CharAt(s, 1)) THEN "" ELSE CharAt(s, 1)) \o Undecorated(Tail(s))

\* What the amount string denotes: without its decorations and the
\* whitespace around what is left, an unsigned decimal enclosed in parentheses is the negative
\* of it, a decimal with or without a sign is itself, and anything else is
\* a parse error.
DenotedAmount(amount_str) ==
    LET t == Strip(Undecorated(Strip(amount_str)))
        enclosed == Len(t) >= 2 /\ CharAt(t, 1) = "(" /\ CharAt(t, Len(t)) = ")"
        inner == SubSeq(t, 2, Len(t) - 1)
        signed == t # "" /\ CharAt(t, 1) \in {"+", "-"}
        body == IF signed THEN Tail(t) ELSE t
    IN  IF enclosed /\ IsUnsignedDecimal(inner) THEN Returns(0 - DecimalValue(inner))
        ELSE IF IsUnsignedDecimal(body)
        THEN Returns(IF signed /\ CharAt(t, 1) = "-" THEN 0 - DecimalValue(body)
                     ELSE DecimalValue(body))
        ELSE Raises("ValueError")

\* C17: _parse_amount returns the number its argument denotes once
\* whitespace, currency symbols and commas are stripped, negative when it
\* is enclosed in parentheses, and raises a parse error when what remains
\* is no decimal number.
C17_ParseAmount ==
    last.op = "_parse_amount" => last.result = DenotedAmount(last.amount_str)

(***************************************************************************)
(* Algebraic properties of the categorizer                                 *)
(***************************************************************************)

\* Keywords in several spellings that differ in letter case only.
KeywordSpellings == {"MyStore", "mystore", "MYSTORE", "xyz", "XYZ"}

\* C18: after add_keyword(c, k), a second add_keyword(c, k'), for k' the
\* keyword k in any letter case, leaves the rule table as the first call
\* left it, and so leaves the result of categorize for every description.
C18_AddKeywordIdempotent ==
    last.op = "add_keyword" =>
        \A again \in {k \in KeywordSpellings : Lower(k) = Lower(last.keyword)} :
            LET twice == add_keyword(category_keywords, last.category, again)
            IN  /\ twice = category_keywords
                /\ \A d \in Descriptions :
                        categorize(twice, d) = categorize(category_keywords, d)

\* C18 witness: add_keyword has put a keyword given in mixed case into an
\* existing category, after a call that created a category, and the
\* keyword is held once.
C18_Witness ==
    /\ last.op = "add_keyword"
    /\ last.category = "Shopping"
    /\ last.keyword = "MyStore"
    /\ IndexOf(category_keywords, "Pets") # 0
    /\ Cardinality({j \in 1..Len(category_keywords[IndexOf(category_keywords, "Shopping")].keywords) :
            category_keywords[IndexOf(category_keywords, "Shopping")].keywords[j] = "mystore"}) = 1

\* The uppercase letter of a lowercase ASCII letter, other characters
\* unchanged.
UpperChar(c) ==
    IF \E i \in 1..Len(LowerChars) : CharAt(LowerChars, i) = c
    THEN CharAt(UpperChars, CHOOSE i \in 1..Len(LowerChars) : CharAt(LowerChars, i) = c)
    ELSE c

\* A string with its letters in uppercase.
RECURSIVE Upper(_)
Upper(s) == IF s = "" THEN "" ELSE UpperChar(CharAt(s, 1)) \o Upper(Tail(s))

\* A string with the case of each of its letters swapped.
RECURSIVE SwapCase(_)
SwapCase(s) ==
    IF s = "" THEN ""
    ELSE (IF UpperChar(CharAt(s, 1)) = CharAt(s, 1) THEN LowerChar(CharAt(s, 1))
          ELSE UpperChar(CharAt(s, 1))) \o SwapCase(Tail(s))

\* C19: categorize answers the same for a description written in
\* lowercase, in uppercase and with the case of every letter swapped as for
\* the description itself, in the default table and in every table
\* add_keyword calls have built.
C19_CaseInsensitive ==
    last.op = "categorize" =>
        \A variant \in {Lower(last.description), Upper(last.description),
                        SwapCase(last.description)} :
            categorize(category_keywords, variant) = last.ret

\* C19 witness: a description in uppercase classified by a default keyword,
\* in a table holding a keyword that was added in mixed case.
C19_Witness ==
    /\ last.op = "categorize"
    /\ last.description = "STARBUCKS COFFEE"
    /\ last.ret = "Food & Dining"
    /\ categorize(category_keywords, "starbucks coffee") = "Food & Dining"
    /\ InList(category_keywords[IndexOf(category_keywords, "Shopping")].keywords, "mystore")

(***************************************************************************)
(* Properties of the monthly views                                         *)
(***************************************************************************)

\* The sum of the totals of a list of (category, total) pairs.
RECURSIVE SumTotals(_)
SumTotals(pairs) ==
    IF pairs = <<>> THEN 0 ELSE Head(pairs).total + SumTotals(Tail(pairs))

\* C20: the category totals the monthly view shows for a month add up to
\* the expenses of the monthly summary of that month, and each is the
\* total of the expenses of its category dated in the month, an expense
\* dated the first day of the month after it not among them.
C20_CategoryTotalsOfMonth ==
    last.op = "view_monthly_summary" =>
        /\ SumTotals(last.category_spending) = last.summary.expenses
        /\ \A i \in 1..Len(last.category_spending) :
                last.category_spending[i].total
                    = ExpenseTotal(transactions, last.category_spending[i].category,
                                   last.year, last.month)

(***************************************************************************)
(* Properties of the order of the date formats                             *)
(***************************************************************************)

\* A trimmed string read as a, b and a year of four digits between two
\* separators of one kind: whether it has that shape, and the three numbers.
NumbersBetween(t, sep) ==
    LET p == Find(t, sep)
        rest == IF p = 0 THEN "" ELSE SubSeq(t, p + 1, Len(t))
        q == Find(rest, sep)
        a == IF p = 0 THEN "" ELSE SubSeq(t, 1, p - 1)
        b == IF q = 0 THEN "" ELSE SubSeq(rest, 1, q - 1)
        y == IF q = 0 THEN "" ELSE SubSeq(rest, q + 1, Len(rest))
    IN  [ok |-> /\ p # 0 /\ q # 0
                /\ Len(a) \in 1..2 /\ Len(b) \in 1..2 /\ Len(y) = 4
                /\ AllDigits(a) /\ AllDigits(b) /\ AllDigits(y),
         a |-> IF AllDigits(a) THEN Number(a) ELSE 0,
         b |-> IF AllDigits(b) THEN Number(b) ELSE 0,
         y |-> IF AllDigits(y) THEN Number(y) ELSE 0]

\* A day of a month of a year of the calendar.
IsDate(year, month, day) ==
    year >= 1 /\ month \in 1..12 /\ day >= 1 /\ day <= DaysInMonth(year, month)

\* The formats that match the whole of a string as a date.
MatchingFormats(t) ==
    {f \in 1..Len(date_formats) : strptime(t, date_formats[f]).raised = ""}

\* C21: _parse_date answers with the first format of its list that matches
\* the whole trimmed string and raises ValueError when none does; a string
\* a/b/YYYY or a-b-YYYY is read as month a, day b whenever that is a date,
\* so always when a and b are both at most 12, and as day a, month b only
\* when it is not.
C21_FirstFormatWins ==
    last.op = "_parse_date" =>
        LET t == Strip(last.date_str)
            M == MatchingFormats(t)
        IN  /\ last.result =
                    IF M = {} THEN Raises("ValueError")
                    ELSE Returns(strftime(strptime(t, date_formats[Least(M)]).ret))
            /\ \A sep \in {"/", "-"} :
                    LET n == NumbersBetween(t, sep) IN
                    n.ok =>
                        last.result =
                            IF IsDate(n.y, n.a, n.b)
                            THEN Returns(strftime([year |-> n.y, month |-> n.a, day |-> n.b]))
                            ELSE IF IsDate(n.y, n.b, n.a)
                            THEN Returns(strftime([year |-> n.y, month |-> n.b, day |-> n.a]))
                            ELSE Raises("ValueError")

\* C21 witness: 5 December written day first, with both numbers at most
\* 12, read as 12 May.
C21_Witness ==
    /\ last.op = "_parse_date"
    /\ "written" \in DOMAIN last
    /\ last.written = [year |-> 2024, month |-> 12, day |-> 5]
    /\ last.format = 3
    /\ last.date_str = "05/12/2024"
    /\ last.result = Returns("2024-05-12")

(***************************************************************************)
(* The frame of add_keyword                                                *)
(***************************************************************************)

\* The table after add_keyword(c, k) differs from the table before in
\* category c alone: an existing c has the lowercased k appended, unless it
\* holds it already; an absent c is created last, with the lowercased k as
\* its only keyword; the other categories keep their place and keywords.
OnlyCategoryChanged(before, after, c, k) ==
    IF \E i \in 1..Len(before) : before[i].name = c
    THEN /\ Len(after) = Len(before)
         /\ \A i \in 1..Len(before) :
                /\ after[i].name = before[i].name
                /\ after[i].keywords =
                        IF before[i].name # c \/ InList(before[i].keywords, Lower(k))
                        THEN before[i].keywords
                        ELSE before[i].keywords \o <<Lower(k)>>
    ELSE /\ Len(after) = Len(before) + 1
         /\ SubSeq(after, 1, Len(before)) = before
         /\ after[Len(after)] = [name |-> c, keywords |-> <<Lower(k)>>]

\* C22: add_keyword(c, k) changes category c alone, as OnlyCategoryChanged
\* says, and afterwards every description that contains k in any letter
\* case and matches no category before c in the table is classified as c.
C22_AddKeywordFrame ==
    [][last'.op = "add_keyword" =>
        /\ OnlyCategoryChanged(category_keywords, category_keywords',
                               last'.category, last'.keyword)
        /\ \A d \in Descriptions :
                (/\ IsSubstring(Lower(last'.keyword), Lower(d))
                 /\ \A i \in MatchingPositions(category_keywords', Lower(d)) :
                        i >= IndexOf(category_keywords', last'.category))
                    => categorize(category_keywords', d) = last'.category]_vars

\* C22 witness: add_keyword has created a category last in the table for a
\* keyword given in mixed case and then appended a second keyword to it,
\* and a description holding that keyword in uppercase, which no earlier
\* category matches, is classified as the category.
C22_Witness ==
    /\ last.op = "add_keyword"
    /\ last.category = "Pets"
    /\ last.keyword = "xyz"
    /\ category_keywords
            = Append(DefaultKeywords, [name |-> "Pets", keywords |-> <<"mystore", "xyz">>])
    /\ categorize(category_keywords, "Unknown transaction XYZ123") = "Pets"

(***************************************************************************)
(* Manual entry against the importer                                       *)
(***************************************************************************)

\* The category parse_csv assigns to a row of a description and a signed
\* amount.
ImportedCategory(table, description, signed) ==
    LET trans_type == IF Positive(signed) THEN "income" ELSE "expense"
        amount == Abs(signed)
    IN  get_suggested_category(table, description,
            IF trans_type = "income" THEN amount ELSE Negated(amount))

\* C23: the category a manual entry suggests is the category the importer
\* assigns to a row of the same description and signed amount, which for a
\* negative amount and a description no keyword matches is "Other
\* Expenses".
C23_ManualSuggestsAsImport ==
    (last.op = "add_transaction" /\ last.raised = "") =>
        LET entered == transactions[Len(transactions)] IN
        /\ last.suggested
                = ImportedCategory(category_keywords, entered.description, last.typed)
        /\ (last.typed < 0 /\ MatchingPositions(category_keywords,
                                                Lower(entered.description)) = {})
                => last.suggested = "Other Expenses"

(***************************************************************************)
(* The default rule table                                                  *)
(***************************************************************************)

\* C24: in the rule table the constructor builds no keyword is shadowed:
\* categorize of a keyword returns the category the keyword is listed under.
C24_NoKeywordShadowed ==
    category_keywords = DefaultKeywords =>
        \A i \in 1..Len(category_keywords) :
            \A j \in 1..Len(category_keywords[i].keywords) :
                categorize(category_keywords, category_keywords[i].keywords[j])
                    = category_keywords[i].name

(***************************************************************************)
(* The store opened again: FinanceDatabase.__init__ on an existing file    *)
(***************************************************************************)

\* An insert that replaces the row of the same name (INSERT OR REPLACE).
InsertOrReplace(cats, row) ==
    Append(SelectSeq(cats, LAMBDA c : c.name # row.name), row)

\* INSERT OR IGNORE INTO categories: name is UNIQUE, so a row whose name
\* the table holds is left out.
InsertOrIgnore(cats, row) ==
    IF \E i \in 1..Len(cats) : cats[i].name = row.name THEN cats ELSE Append(cats, row)

\* The loop of _initialize_default_categories, from default category k on.
RECURSIVE SeedLoop(_, _)
SeedLoop(cats, k) ==
    IF k > Len(DefaultCategories) THEN cats
    ELSE SeedLoop(InsertOrIgnore(cats, DefaultCategories[k]), k + 1)

\* FinanceDatabase._initialize_default_categories: the categories after it.
_initialize_default_categories(cats) == SeedLoop(cats, 1)

\* The budget updates made between two openings of the store: expense
\* categories, an income category and a name that is no category, each with
\* no limit and two limits.
StoreUpdates ==
    {"Food & Dining", "Other Expenses", "Salary", "Pets"} \X {0, Money(47, 50), Money(120, 0)}

\* FinanceTrackerApp.__init__ on the database file of an earlier run: the
\* tables exist, the default categories are seeded again, and the
\* categorizer is a new one.
Reopen ==
    /\ categories' = _initialize_default_categories(categories)
    /\ category_keywords' = DefaultKeywords
    /\ last' = [op |-> "__init__"]
    /\ UNCHANGED <<transactions, next_id>>

NextStore ==
    \/ \E u \in StoreUpdates : UpdateBudgetLimit(u[1], u[2])
    \/ Reopen

SpecStore == Init /\ [][NextStore]_vars

(***************************************************************************)
(* Properties of the seeding                                               *)
(***************************************************************************)

\* The name, type and limit of every category of a table.
CategoryFacts(cats) ==
    {[name |-> cats[i].name, type |-> cats[i].type, budget_limit |-> cats[i].budget_limit]
        : i \in 1..Len(cats)}

\* C25: in every store that budget updates and earlier openings have
\* produced, running the initialization again leaves the names of the
\* categories, their types and their limits as they are, and no name
\* occurs twice.
C25_SeedingIdempotent ==
    LET again == _initialize_default_categories(categories) IN
    /\ CategoryFacts(again) = CategoryFacts(categories)
    /\ \A i \in 1..Len(again), j \in 1..Len(again) : again[i].name = again[j].name => i = j
    /\ \A i \in 1..Len(categories), j \in 1..Len(categories) :
            categories[i].name = categories[j].name => i = j

\* C25 witness: the store was opened again after updates had changed the
\* limits of an expense category and of an income category, and holds the
\* changed limits.
C25_Witness ==
    /\ last.op = "__init__"
    /\ \E i \in 1..Len(categories) :
            categories[i].name = "Other Expenses" /\ categories[i].budget_limit = Money(120, 0)
    /\ \E i \in 1..Len(categories) :
            categories[i].name = "Salary" /\ categories[i].budget_limit = Money(47, 50)
    /\ Len(categories) = Len(DefaultCategories)

====
